---- MODULE Spec2Model ----
(***************************************************************************)
(* Transcript content normalisation of claude-code-chats: text repair      *)
(* (processBackspaces), content-block classification (ContentBlockRenderer)*)
(* and task-list extraction (ToolResultBlock).                             *)
(*                                                                         *)
(* JavaScript strings are modelled as sequences of UTF-16 code units; a    *)
(* code unit is a one-character TLA+ string, except the backspace (code    *)
(* point 8), which TLA+ cannot write as a literal and is the token BS.     *)
(***************************************************************************)
EXTENDS Integers, Sequences, FiniteSets, TLC

VARIABLES
    text,       \* textProcessing.ts: the argument of processBackspaces
    results,    \* the values returned by the successive processBackspaces calls
    block,      \* MessageRenderer.tsx: the ContentBlock handed to ContentBlockRenderer
    version,    \* which of the two ContentBlockRenderer definitions of the file runs
    rendered,   \* what ContentBlockRenderer produced for block (NotRendered before)
    message,    \* chat.ts: the content of the ChatMessage handed to extractMessageText
    extracted,  \* what extractMessageText returned for it (NotExtracted before)
    searchQuery,      \* AppSidebar.tsx:41 the text of the search input
    debouncedQuery,   \* AppSidebar.tsx:42 the query handed to useSearchChats
    isSearchMode,     \* AppSidebar.tsx:43
    activeFilters,    \* AppSidebar.tsx:44 the set of match types shown
    showFilters,      \* AppSidebar.tsx:45 whether the filter panel is open
    timers,           \* AppSidebar.tsx:51-55 the debounce timeouts still pending
    now,              \* the wall clock in milliseconds (setTimeout, new Date())
    projects,         \* AppSidebar.tsx:47 data of useProjects()
    cache,            \* useChats:21-28 the query cache, data per searched query
    fetching,         \* queries whose searchChats call has not returned yet
    searchCalls,      \* every argument tauriApi.searchChats was invoked with
    filteredResults,  \* AppSidebar.tsx:66-68 as computed by the last render
    selectedSession,  \* App.tsx:9 the argument of the last onSelectSession call
    lastClick,        \* the last run of handleSearchResultClick and its calls
    lastFilterOp      \* the last filter handler that ran and the set it found

renderVars == <<text, results, block, version, rendered, message, extracted>>

sidebarVars ==
    <<searchQuery, debouncedQuery, isSearchMode, activeFilters, showFilters,
      timers, now, projects, cache, fetching, searchCalls, filteredResults,
      selectedSession, lastClick, lastFilterOp>>

vars == <<renderVars, sidebarVars>>

(***************************************************************************)
(* Bounds                                                                  *)
(***************************************************************************)
MaxLen == 4         \* longest input string of the text-repair specification
MaxCalls == 2       \* processBackspaces calls chained on one input

(***************************************************************************)
(* Strings                                                                 *)
(***************************************************************************)
BS == "\\b"         \* the backspace code unit '\b'

Chars(s) == [i \in 1..Len(s) |-> SubSeq(s, i, i)]

Alphabet == {"a", "b", "c", BS}

RECURSIVE StringsUpTo(_)
StringsUpTo(n) ==
    IF n = 0 THEN {<<>>}
    ELSE LET shorter == StringsUpTo(n - 1)
         IN  shorter \cup {Append(s, c) : s \in {t \in shorter : Len(t) = n - 1}, c \in Alphabet}

\* String.prototype.includes for a one-code-unit needle
includesChar(s, c) == \E i \in 1..Len(s) : s[i] = c

(***************************************************************************)
(* processBackspaces (src/utils/textProcessing.ts, duplicated in           *)
(* src/types/chat.ts)                                                      *)
(***************************************************************************)
\* result.slice(0, -1)
sliceLast(result) == SubSeq(result, 1, Len(result) - 1)

\* (mutation of loopBody: a backspace is skipped but removes nothing)
loopBody_skipOnly(result, char) ==
    IF char = BS THEN result ELSE Append(result, char)

\* (mutation of loopBody: a backspace met with an empty buffer is kept)
loopBody_keepLeading(result, char) ==
    IF char = BS
    THEN IF Len(result) > 0 THEN SubSeq(result, 1, Len(result) - 1) ELSE <<BS>>
    ELSE Append(result, char)

\* one iteration of the for loop: the new value of result for text[i]
loopBody(result, char) ==
    IF char = BS
    THEN IF Len(result) > 0 THEN sliceLast(result) ELSE result
    ELSE Append(result, char)

\* the for loop from index i (1-based) with the buffer built so far
RECURSIVE loopFrom(_, _, _)
loopFrom(str, i, result) ==
    IF i > Len(str) THEN result
    ELSE loopFrom(str, i + 1, loopBody(result, str[i]))

\* (mutation of processLoop: the loop starts at the second code unit)
processLoop_fromSecond(str) == loopFrom(str, 2, <<>>)

processLoop(str) == loopFrom(str, 1, <<>>)

processBackspaces(str) ==
    IF ~includesChar(str, BS) THEN str ELSE processLoop(str)

(***************************************************************************)
(* JavaScript values.  A value is a record tagged with its typeof-like     *)
(* kind; an absent property reads as Undefined.  An object is the sequence *)
(* of its <<key, value>> properties in insertion order.                    *)
(***************************************************************************)
Undefined == [t |-> "undefined"]
Null == [t |-> "null"]
Bool(b) == [t |-> "boolean", v |-> b]
Num(lexeme) == [t |-> "number", v |-> lexeme]
Str(s) == [t |-> "string", v |-> s]
Arr(elements) == [t |-> "array", v |-> elements]
Obj(members) == [t |-> "object", v |-> members]

S(literal) == Str(Chars(literal))

isNullish(x) == x.t \in {"undefined", "null"}

\* ToBoolean
truthy(x) ==
    CASE x.t \in {"undefined", "null"} -> FALSE
      [] x.t = "boolean" -> x.v
      [] x.t = "number" -> \E i \in 1..Len(x.v) : x.v[i] \in {"1", "2", "3", "4", "5", "6", "7", "8", "9"}
      [] x.t = "string" -> Len(x.v) > 0
      [] OTHER -> TRUE

\* a || b
JsOr(a, b) == IF truthy(a) THEN a ELSE b

\* a && b
JsAnd(a, b) == IF truthy(a) THEN b ELSE a

\* the value of own property key of an object, Undefined when it has none
hasMember(members, key) == \E i \in 1..Len(members) : members[i][1] = key

memberOf(members, key) ==
    IF hasMember(members, key)
    THEN members[CHOOSE i \in 1..Len(members) : members[i][1] = key][2]
    ELSE Undefined

\* obj.key : a TypeError on undefined and null, Undefined on other primitives
\* and on arrays (for the keys used here), the property on an object
Thrown == [t |-> "throw"]

Member(x, key) ==
    IF isNullish(x) THEN Thrown
    ELSE IF x.t = "object" THEN memberOf(x.v, Chars(key))
    ELSE Undefined

\* Array.isArray
isArray(x) == x.t = "array"

\* String.prototype.includes
includes(s, needle) ==
    \E i \in 0..(Len(s) - Len(needle)) : SubSeq(s, i + 1, i + Len(needle)) = needle

\* String.prototype.trim() leaves nothing
isWhiteSpace(c) == c \in {" ", "\n", "\t", "\r"}

trimsToEmpty(s) == \A i \in 1..Len(s) : isWhiteSpace(s[i])

(***************************************************************************)
(* content.match(/\{[\s\S]*\}/): the leftmost '{' that has a '}' after it, *)
(* extended greedily to the last '}' of the string; null without a match.  *)
(***************************************************************************)
firstIndexOf(s, c) ==
    IF includesChar(s, c)
    THEN CHOOSE i \in 1..Len(s) : s[i] = c /\ \A j \in 1..(i - 1) : s[j] # c
    ELSE 0

lastIndexOf(s, c) ==
    IF includesChar(s, c)
    THEN CHOOSE i \in 1..Len(s) : s[i] = c /\ \A j \in (i + 1)..Len(s) : s[j] # c
    ELSE 0

\* (mutation of jsonMatch: the match is lazy and ends at the first '}')
jsonMatch_lazy(s) ==
    LET open == firstIndexOf(s, "{")
        after == IF open = 0 THEN <<>> ELSE SubSeq(s, open + 1, Len(s))
        close == firstIndexOf(after, "}")
    IN  IF open > 0 /\ close > 0 THEN Str(SubSeq(s, open, open + close)) ELSE Null

jsonMatch(s) ==
    LET open == firstIndexOf(s, "{")
        close == lastIndexOf(s, "}")
    IN  IF open > 0 /\ close > open THEN Str(SubSeq(s, open, close)) ELSE Null

(***************************************************************************)
(* JSON.parse: a recursive-descent reading of the JSON grammar (objects,   *)
(* arrays, strings with the one-character escapes, numbers, true, false,   *)
(* null, white space).  A result is [ok |-> TRUE, val, next] or, for a     *)
(* SyntaxError, ParseFail.  \uXXXX escapes are outside the inputs drawn.   *)
(***************************************************************************)
ParseFail == [ok |-> FALSE]
ParseOk(value, next) == [ok |-> TRUE, val |-> value, next |-> next]

Digits == {"0", "1", "2", "3", "4", "5", "6", "7", "8", "9"}

RECURSIVE skipWs(_, _)
skipWs(s, i) == IF i <= Len(s) /\ isWhiteSpace(s[i]) THEN skipWs(s, i + 1) ELSE i

RECURSIVE skipDigits(_, _)
skipDigits(s, i) == IF i <= Len(s) /\ s[i] \in Digits THEN skipDigits(s, i + 1) ELSE i

unescape(c) ==
    CASE c = "n" -> "\n"
      [] c = "t" -> "\t"
      [] c = "r" -> "\r"
      [] c = "f" -> "\f"
      [] c = "b" -> BS
      [] OTHER -> c

\* the characters of a string literal from i, the opening quote consumed
RECURSIVE scanString(_, _, _)
scanString(s, i, acc) ==
    IF i > Len(s) THEN ParseFail
    ELSE IF s[i] = "\"" THEN ParseOk(Str(acc), i + 1)
    ELSE IF s[i] = "\\"
         THEN IF i + 1 <= Len(s) /\ s[i + 1] \in {"\"", "\\", "/", "b", "f", "n", "r", "t"}
              THEN scanString(s, i + 2, Append(acc, unescape(s[i + 1])))
              ELSE ParseFail
    ELSE IF s[i] \in {"\n", "\t", "\r", "\f", BS} THEN ParseFail
    ELSE scanString(s, i + 1, Append(acc, s[i]))

\* -? (0 | [1-9][0-9]*) (. [0-9]+)? ([eE] [+-]? [0-9]+)?
scanNumber(s, i) ==
    LET intStart == IF i <= Len(s) /\ s[i] = "-" THEN i + 1 ELSE i
        intEnd == IF intStart <= Len(s) /\ s[intStart] = "0" THEN intStart + 1
                  ELSE skipDigits(s, intStart)
        hasFrac == intEnd <= Len(s) /\ s[intEnd] = "."
        fracEnd == IF hasFrac THEN skipDigits(s, intEnd + 1) ELSE intEnd
        hasExp == fracEnd <= Len(s) /\ s[fracEnd] \in {"e", "E"}
        expStart == IF hasExp /\ fracEnd + 1 <= Len(s) /\ s[fracEnd + 1] \in {"+", "-"}
                    THEN fracEnd + 2 ELSE fracEnd + 1
        expEnd == IF hasExp THEN skipDigits(s, expStart) ELSE fracEnd
    IN  IF intEnd = intStart THEN ParseFail
        ELSE IF hasFrac /\ fracEnd = intEnd + 1 THEN ParseFail
        ELSE IF hasExp /\ expEnd = expStart THEN ParseFail
        ELSE ParseOk(Num(SubSeq(s, i, expEnd - 1)), expEnd)

startsWithAt(s, i, word) ==
    i + Len(word) - 1 <= Len(s) /\ SubSeq(s, i, i + Len(word) - 1) = word

\* obj[key] = value while parsing: a repeated key keeps its place and takes
\* the later value
putMember(members, key, value) ==
    IF hasMember(members, key)
    THEN [i \in 1..Len(members) |->
            IF members[i][1] = key THEN <<key, value>> ELSE members[i]]
    ELSE Append(members, <<key, value>>)

RECURSIVE parseValue(_, _)
RECURSIVE parseMembers(_, _, _)
RECURSIVE parseElements(_, _, _)

\* the members of an object from i, where a key is due
parseMembers(s, i0, acc) ==
    LET i == skipWs(s, i0)
    IN  IF i > Len(s) \/ s[i] # "\"" THEN ParseFail
        ELSE LET k == scanString(s, i + 1, <<>>)
             IN  IF ~k.ok THEN ParseFail
                 ELSE LET colon == skipWs(s, k.next)
                      IN  IF colon > Len(s) \/ s[colon] # ":" THEN ParseFail
                          ELSE LET v == parseValue(s, colon + 1)
                               IN  IF ~v.ok THEN ParseFail
                                   ELSE LET e == skipWs(s, v.next)
                                            acc2 == putMember(acc, k.val.v, v.val)
                                        IN  IF e > Len(s) THEN ParseFail
                                            ELSE IF s[e] = "," THEN parseMembers(s, e + 1, acc2)
                                            ELSE IF s[e] = "}" THEN ParseOk(Obj(acc2), e + 1)
                                            ELSE ParseFail

\* the elements of an array from i, where a value is due
parseElements(s, i0, acc) ==
    LET v == parseValue(s, i0)
    IN  IF ~v.ok THEN ParseFail
        ELSE LET e == skipWs(s, v.next)
                 acc2 == Append(acc, v.val)
             IN  IF e > Len(s) THEN ParseFail
                 ELSE IF s[e] = "," THEN parseElements(s, e + 1, acc2)
                 ELSE IF s[e] = "]" THEN ParseOk(Arr(acc2), e + 1)
                 ELSE ParseFail

parseValue(s, i0) ==
    LET i == skipWs(s, i0)
    IN  IF i > Len(s) THEN ParseFail
        ELSE IF s[i] = "{"
             THEN LET j == skipWs(s, i + 1)
                  IN  IF j <= Len(s) /\ s[j] = "}" THEN ParseOk(Obj(<<>>), j + 1)
                      ELSE parseMembers(s, i + 1, <<>>)
        ELSE IF s[i] = "["
             THEN LET j == skipWs(s, i + 1)
                  IN  IF j <= Len(s) /\ s[j] = "]" THEN ParseOk(Arr(<<>>), j + 1)
                      ELSE parseElements(s, i + 1, <<>>)
        ELSE IF s[i] = "\"" THEN scanString(s, i + 1, <<>>)
        ELSE IF s[i] = "-" \/ s[i] \in Digits THEN scanNumber(s, i)
        ELSE IF startsWithAt(s, i, Chars("true")) THEN ParseOk(Bool(TRUE), i + 4)
        ELSE IF startsWithAt(s, i, Chars("false")) THEN ParseOk(Bool(FALSE), i + 5)
        ELSE IF startsWithAt(s, i, Chars("null")) THEN ParseOk(Null, i + 4)
        ELSE ParseFail

\* (mutation of JSONparse: text after the first value is ignored)
JSONparse_prefix(s) ==
    LET r == parseValue(s, 1)
    IN  IF r.ok THEN r.val ELSE Thrown

\* JSON.parse(s): the value, or Thrown for a SyntaxError
JSONparse(s) ==
    LET r == parseValue(s, 1)
    IN  IF r.ok /\ skipWs(s, r.next) > Len(s) THEN r.val ELSE Thrown

(***************************************************************************)
(* AppSidebar.tsx (the definition of lines 1-354, the one with the filter  *)
(* panel; the definition of lines 356-664 has the same debounce effect and *)
(* the same handleSearchResultClick and no filter state), hooks/useChats   *)
(* and App.tsx.                                                            *)
(***************************************************************************)
MaxQuery == 2       \* longest text typed into the search input
MaxTime == 600      \* the clock stops advancing at this many milliseconds
TickMs == 150       \* milliseconds between two observable clock values

DebounceDelay == 300    \* AppSidebar.tsx:53
MinQueryLength == 2     \* useChats: enabled: query.length >= 2
SliceLimit == 50        \* AppSidebar.tsx:168 snippet.slice(0, 50)

ALL_MATCH_TYPES ==
    <<"content", "thinking", "tool_name", "tool_input", "tool_result",
      "tool_structured_result">>

\* new Set(ALL_MATCH_TYPES)
SetOf(seq) == {seq[i] : i \in 1..Len(seq)}

RECURSIVE QueriesUpTo(_)
QueriesUpTo(n) ==
    IF n = 0 THEN {<<>>}
    ELSE QueriesUpTo(n - 1) \cup {Append(q, "a") : q \in QueriesUpTo(n - 1)}

Queries == QueriesUpTo(MaxQuery)

\* Date.prototype.toISOString(): the text form of an instant, one text per
\* millisecond
toISOString(ms) == [iso |-> ms]

\* String.prototype.slice(0, n)
sliceTo(str, n) == SubSeq(str, 1, IF Len(str) < n THEN Len(str) ELSE n)

\* A ChatSession object; ref is the identity of the object in the heap.
ChatSession(ref, id, title, path, count) ==
    [ref |-> ref, id |-> id, title |-> Chars(title),
     timestamp |-> toISOString(0), project_path |-> path,
     message_count |-> count, last_updated |-> toISOString(0)]

ProjectFolder(name, sessions) ==
    [name |-> name, path |-> name, chat_sessions |-> sessions]

\* data of a query that has not produced any (undefined), or the list it holds
NoData == [loaded |-> FALSE, list |-> <<>>]
Data(list) == [loaded |-> TRUE, list |-> list]

\* Project lists useProjects() can hold: none, one whose second project
\* repeats ids of the first and of itself, and one without the searched ids.
ProjectsFull ==
    <<ProjectFolder("/p1", <<ChatSession("o1", "s1", "Fix login", "/p1", 4)>>),
      ProjectFolder("/p2", <<ChatSession("o2", "s3", "Notes", "/p2", 1),
                             ChatSession("o3", "s2", "Add search", "/p2", 7),
                             ChatSession("o4", "s1", "Fix login (copy)", "/p2", 4),
                             ChatSession("o5", "s2", "Add search (old)", "/p2", 2)>>)>>

ProjectsStale ==
    <<ProjectFolder("/p1", <<>>),
      ProjectFolder("/p2", <<ChatSession("o6", "s3", "Notes", "/p2", 1)>>)>>

ProjectLists == {<<>>, ProjectsFull, ProjectsStale}

ShortSnippet == Chars("fix")
ExactSnippet == Chars("0123456789012345678901234567890123456789012345678X")
LongSnippet == Chars("0123456789012345678901234567890123456789012345678XYZ and more")

SearchResult(session_id, message_uuid, snippet, match_type) ==
    [session_id |-> session_id, message_uuid |-> message_uuid,
     snippet |-> snippet, match_type |-> match_type]

\* Result lists of the search command; match_type ranges over the closed
\* enumeration of match types.
ResultsMixed ==
    <<SearchResult("s2", "m1", LongSnippet, "thinking"),
      SearchResult("s1", "m2", ShortSnippet, "content"),
      SearchResult("s2", "m1", LongSnippet, "thinking"),
      SearchResult("s9", "m3", ExactSnippet, "tool_result"),
      SearchResult("s1", "m4", <<>>, "content")>>

ResultsEveryType ==
    [i \in 1..Len(ALL_MATCH_TYPES) |->
        SearchResult("s1", "m5", ShortSnippet, ALL_MATCH_TYPES[i])]

ResultLists == {<<>>, ResultsMixed, ResultsEveryType}

NoSession == [ref |-> "null"]
NoClick == [clicked |-> FALSE]
NoFilterOp == [name |-> "none"]

\* a timeout whose callback is due at once
Timeout_noDelay(value, t) == [value |-> value, due |-> t, set |-> t]

\* AppSidebar.tsx:51-53  setTimeout(() => setDebouncedQuery(searchQuery), 300)
\* called at time t by the effect of the render whose searchQuery is value
Timeout(value, t) == [value |-> value, due |-> t + DebounceDelay, set |-> t]

\* a cleanup that clears nothing
clearTimeout_none(pending, query) == pending

\* AppSidebar.tsx:55  the cleanup of the effect that ran for query clears
\* the timeout that effect had set
clearTimeout(pending, query) == {h \in pending : h.value # query}

\* searchResults: data of the query ['searchChats', debouncedQuery]
searchResultsOf(data, query) == data[query]

\* the predicate of the filter, restricted to the three match types that the
\* comment of chat.ts:45 lists
keeps_documented(result, active) ==
    result.match_type \in active \cap {"content", "tool_name", "tool_result"}

\* activeFilters.has(result.match_type)
keeps(result, active) == result.match_type \in active

RECURSIVE filterFrom(_, _, _, _)
filterFrom(list, i, active, acc) ==
    IF i > Len(list) THEN acc
    ELSE filterFrom(list, i + 1, active,
                    IF keeps(list[i], active) THEN Append(acc, list[i]) ELSE acc)

\* the result list shown without any filter, as AppSidebar.tsx:636 does
filteredResultsOf_noFilter(data, active) == data

\* AppSidebar.tsx:66-68  searchResults?.filter(...): undefined stays undefined
filteredResultsOf(data, active) ==
    IF ~data.loaded THEN NoData
    ELSE Data(filterFrom(data.list, 1, active, <<>>))

\* a toggle that only ever adds the category
toggleFilterSet_addOnly(prev, filter) == prev \cup {filter}

\* a toggle that keeps a removed category under a name outside the list
toggleFilterSet_renames(prev, filter) ==
    IF filter \in prev THEN (prev \ {filter}) \cup {"other"}
    ELSE prev \cup {filter}

\* AppSidebar.tsx:71-79  the updater of toggleFilter
toggleFilterSet(prev, filter) ==
    IF filter \in prev THEN prev \ {filter} ELSE prev \cup {filter}

\* an updater that adds to and deletes from prev itself
prevAfterToggle_inPlace(prev, filter) == toggleFilterSet(prev, filter)

\* AppSidebar.tsx:72  new Set(prev): add and delete act on the copy, so the
\* Set object prev holds after the updater what it held before
prevAfterToggle(prev, filter) == prev

\* a select-all that empties every non-empty set
toggleAllSet_emptiesFirst(active) ==
    IF active # {} THEN {} ELSE SetOf(ALL_MATCH_TYPES)

\* AppSidebar.tsx:82-88
toggleAllSet(active) ==
    IF Cardinality(active) = Len(ALL_MATCH_TYPES) THEN {}
    ELSE SetOf(ALL_MATCH_TYPES)

\* useChats: a query of at least one character is searched
enabled_nonEmpty(query) == Len(query) >= 1

\* useChats:25  enabled: query.length >= 2
enabled(query) == Len(query) >= MinQueryLength

\* useQuery: a query is fetched when it is enabled, holds no data and is not
\* already being fetched
mustFetch(query, data, inFlight) ==
    enabled(query) /\ ~data[query].loaded /\ query \notin inFlight

\* Array.prototype.find taking the last match
find_last(sessions, id) ==
    LET hits == {k \in 1..Len(sessions) : sessions[k].id = id}
    IN  IF hits = {} THEN NoSession
        ELSE sessions[CHOOSE k \in hits : \A j \in hits : j <= k]

\* AppSidebar.tsx:154  project.chat_sessions.find(s => s.id === result.session_id)
RECURSIVE findFrom(_, _, _)
findFrom(sessions, k, id) ==
    IF k > Len(sessions) THEN NoSession
    ELSE IF sessions[k].id = id THEN sessions[k]
    ELSE findFrom(sessions, k + 1, id)

find(sessions, id) == findFrom(sessions, 1, id)

\* AppSidebar.tsx:153-162  for (const project of projects) { find; if (session) return }
RECURSIVE scanProjects(_, _, _)
scanProjects(list, i, id) ==
    IF i > Len(list) THEN NoSession
    ELSE LET session == find(list[i].chat_sessions, id)
         IN  IF session # NoSession THEN session
             ELSE scanProjects(list, i + 1, id)

\* no placeholder is made: null stands for the session
fallbackSession_null(result, t1, t2) == NoSession

\* a placeholder whose message_count is a clock reading as well
fallbackSession_countsTime(result, t1, t2) ==
    [ref |-> "new", id |-> result.session_id,
     title |-> Chars("Search Result: ") \o sliceTo(result.snippet, SliceLimit)
               \o Chars("..."),
     timestamp |-> toISOString(t1), project_path |-> "",
     message_count |-> t1, last_updated |-> toISOString(t2)]

\* AppSidebar.tsx:165-172  t1 and t2 are the two readings of new Date()
fallbackSession(result, t1, t2) ==
    [ref |-> "new", id |-> result.session_id,
     title |-> Chars("Search Result: ") \o sliceTo(result.snippet, SliceLimit)
               \o Chars("..."),
     timestamp |-> toISOString(t1), project_path |-> "",
     message_count |-> 0, last_updated |-> toISOString(t2)]

\* handleSearchResultClick without the return of line 159
handleSearchResultClick_noReturn(result, data, t1, t2) ==
    LET session == IF data.loaded
                   THEN scanProjects(data.list, 1, result.session_id)
                   ELSE NoSession
    IN  IF session # NoSession
        THEN <<session, fallbackSession(result, t1, t2)>>
        ELSE <<fallbackSession(result, t1, t2)>>

\* AppSidebar.tsx:151-175  the sessions handed to onSelectSession, in order
handleSearchResultClick(result, data, t1, t2) ==
    LET session == IF data.loaded
                   THEN scanProjects(data.list, 1, result.session_id)
                   ELSE NoSession
    IN  IF session # NoSession THEN <<session>>
        ELSE <<fallbackSession(result, t1, t2)>>

\* The sidebar after mounting and its first effects: the debounce effect has
\* armed a timer for the empty query, nothing is loaded.
SidebarMounted ==
    /\ searchQuery = <<>>
    /\ debouncedQuery = <<>>
    /\ isSearchMode = FALSE
    /\ activeFilters = SetOf(ALL_MATCH_TYPES)
    /\ showFilters = FALSE
    /\ timers = {Timeout(<<>>, 0)}
    /\ now = 0
    /\ projects = NoData
    /\ cache = [q \in Queries |-> NoData]
    /\ fetching = {}
    /\ searchCalls = {}
    /\ filteredResults = NoData
    /\ selectedSession = NoSession
    /\ lastClick = NoClick
    /\ lastFilterOp = NoFilterOp

(***************************************************************************)
(* Text-repair specification: an input is drawn, processBackspaces is      *)
(* applied to it, and then again to its own output.                        *)
(***************************************************************************)
NotRendered == [variant |-> "none"]
NotExtracted == [done |-> FALSE]
NoBlock == [none |-> TRUE]

InitRepair ==
    /\ text \in StringsUpTo(MaxLen)
    /\ results = <<>>
    /\ block = NoBlock
    /\ version = 1
    /\ rendered = NotRendered
    /\ message = Null
    /\ extracted = NotExtracted
    /\ SidebarMounted

Repair ==
    /\ Len(results) = 0
    /\ results' = <<processBackspaces(text)>>
    /\ UNCHANGED <<text, block, version, rendered, message, extracted>>
    /\ UNCHANGED sidebarVars

RepairAgain ==
    /\ Len(results) >= 1
    /\ Len(results) < MaxCalls
    /\ results' = Append(results, processBackspaces(results[Len(results)]))
    /\ UNCHANGED <<text, block, version, rendered, message, extracted>>
    /\ UNCHANGED sidebarVars

NextRepair == Repair \/ RepairAgain

SpecRepair == InitRepair /\ [][NextRepair]_vars

(***************************************************************************)
(* MessageRenderer.tsx.  The file holds two definitions of each component: *)
(* lines 1-430 (version 1) and lines 432-720 (version 2).  A ContentBlock  *)
(* is a record of its nine optional fields, Undefined where absent.        *)
(***************************************************************************)
TodosModifiedMarker == Chars("Todos have been modified successfully")
TodoListMarker == Chars("todo list")

\* x?.includes(needle)
optIncludes(x, needle) ==
    IF isNullish(x) THEN Undefined
    ELSE IF x.t = "string" THEN Bool(includes(x.v, needle))
    ELSE Thrown

\* (mutation of callIncludes: the call has no optional chaining)
callIncludes_unguarded(x, needle) ==
    IF x.t = "string" THEN Bool(includes(x.v, needle)) ELSE Thrown

\* block.content?.includes(needle)
callIncludes(x, needle) == optIncludes(x, needle)

\* MessageText: null for blank content, else the markdown source displayed
MessageText(content, ver) ==
    IF content.t # "string" THEN Thrown
    ELSE IF trimsToEmpty(content.v) THEN Null
    ELSE IF ver = 1 THEN Str(processBackspaces(content.v))
    ELSE content

\* (mutation of blockTypeOf: type is read before block_type)
blockTypeOf_typeFirst(b) == JsOr(JsOr(b.type, b.block_type), S("unknown"))

\* const blockType = block.block_type || (block as any).type || "unknown"
blockTypeOf(b) == JsOr(JsOr(b.block_type, b.type), S("unknown"))

\* (mutation of isTodoResultOf: a structured payload also marks a todo result)
isTodoResultOf_payload(b) ==
    JsOr(JsOr(callIncludes(b.content, TodosModifiedMarker),
              callIncludes(b.content, TodoListMarker)),
         b.tool_use_result)

\* ToolResultBlock: const isTodoResult = ... || ...
isTodoResultOf(b) ==
    JsOr(callIncludes(b.content, TodosModifiedMarker),
         callIncludes(b.content, TodoListMarker))

\* (mutation of scrapeTodos: a newTodos of any kind is taken from the text)
scrapeTodos_anyValue(content) ==
    LET matched == jsonMatch(content.v)
        parsed == IF truthy(matched) THEN JSONparse(matched.v) ELSE Undefined
        newTodos == IF parsed = Thrown THEN Thrown ELSE Member(parsed, "newTodos")
    IN  IF content.t # "string" THEN Thrown
        ELSE IF ~truthy(matched) THEN Null
        ELSE IF parsed = Thrown \/ newTodos = Thrown THEN Null
        ELSE IF truthy(newTodos) THEN newTodos
        ELSE Null

\* ToolResultBlock, the try block and its empty catch: the newTodos array of
\* the JSON object matched in content, or null
scrapeTodos(content) ==
    LET matched == jsonMatch(content.v)
        parsed == IF truthy(matched) THEN JSONparse(matched.v) ELSE Undefined
        newTodos == IF parsed = Thrown THEN Thrown ELSE Member(parsed, "newTodos")
    IN  IF content.t # "string" THEN Thrown
        ELSE IF ~truthy(matched) THEN Null
        ELSE IF parsed = Thrown \/ newTodos = Thrown THEN Null
        ELSE IF truthy(newTodos) /\ isArray(newTodos) THEN newTodos
        ELSE Null

\* (mutation of todoDataOf: the text is scraped before tool_use_result is read)
todoDataOf_scrapeFirst(b) ==
    LET scraped == IF truthy(b.content) THEN scrapeTodos(b.content) ELSE Null
    IN  IF ~truthy(isTodoResultOf(b)) THEN Null
        ELSE IF truthy(scraped) THEN scraped
        ELSE IF truthy(JsAnd(b.tool_use_result, Member(b.tool_use_result, "newTodos")))
             THEN Member(b.tool_use_result, "newTodos")
        ELSE Null

\* ToolResultBlock: let todoData = null; if (isTodoResult) { ... }
todoDataOf(b) ==
    IF ~truthy(isTodoResultOf(b)) THEN Null
    ELSE IF truthy(JsAnd(b.tool_use_result, Member(b.tool_use_result, "newTodos")))
         THEN Member(b.tool_use_result, "newTodos")
    ELSE IF truthy(b.content) THEN scrapeTodos(b.content)
    ELSE Null

\* ToolResultBlock
ToolResultBlock(b) ==
    LET isTodoResult == isTodoResultOf(b)
        todoData == todoDataOf(b)
    IN  [variant |-> "ToolOutput",
         correlationId |-> b.tool_use_id,
         rawText |-> b.content,
         structuredPayload |-> b.tool_use_result,
         isTodoResult |-> truthy(isTodoResult),
         todoData |-> todoData,
         threw |-> isTodoResult = Thrown \/ todoData = Thrown]

\* ToolUseBlock: version 1 shows the result carried by the block and, for a
\* TodoWrite result, its newTodos; version 2 shows name and input only
ToolUseBlock(b, ver) ==
    LET isTodoWrite == optIncludes(b.content, TodosModifiedMarker)
        newTodos == JsAnd(b.tool_use_result, Member(b.tool_use_result, "newTodos"))
        todos == IF ver = 1 /\ truthy(b.tool_use_result) /\ truthy(isTodoWrite) /\ truthy(newTodos)
                 THEN newTodos ELSE Null
    IN  [variant |-> "ToolInvocation",
         name |-> b.name,
         input |-> b.input,
         hasResult |-> ver = 1 /\ truthy(JsOr(b.content, b.tool_use_result)),
         todos |-> todos,
         threw |-> ver = 1 /\ (isTodoWrite = Thrown \/ todos = Thrown)]

\* ThinkingBlock
\* ThinkingBlock: content is the prop handed to MessageText at line 420, null
\* when "No thinking content" is shown instead; body is what MessageText shows
ThinkingBlock(b, ver) ==
    LET content == IF truthy(b.thinking) THEN b.thinking ELSE Null
        body == IF truthy(b.thinking) THEN MessageText(b.thinking, ver) ELSE Null
    IN  [variant |-> "ReasoningTrace", content |-> content, body |-> body,
         threw |-> body = Thrown]

\* case "text": <MessageText content={block.text || ""} />
\* content is the prop handed to MessageText, body what MessageText shows
TextBlock(b, ver) ==
    LET content == JsOr(b.text, S(""))
        body == MessageText(content, ver)
    IN  [variant |-> "Text", content |-> content, body |-> body,
         threw |-> body = Thrown]

\* the fields of a ContentBlock in the order of chat.ts
ContentBlockFields ==
    <<"block_type", "type", "text", "name", "input", "tool_use_id", "content",
      "tool_use_result", "thinking">>

\* Object.keys that leaves out the fields holding a falsy value
objectKeys_truthy(b) == {f \in DOMAIN b : truthy(b[f])}

\* Object.keys(block)
objectKeys(b) == {f \in DOMAIN b : b[f] # Undefined}

\* the own properties of the block object, in order
RECURSIVE membersFrom(_, _)
membersFrom(b, i) ==
    IF i > Len(ContentBlockFields) THEN <<>>
    ELSE (IF ContentBlockFields[i] \in objectKeys(b)
          THEN <<<<Chars(ContentBlockFields[i]), b[ContentBlockFields[i]]>>>>
          ELSE <<>>) \o membersFrom(b, i + 1)

\* JSON.stringify: the escape of one code unit inside a string literal
escapeChar(c) ==
    CASE c = "\"" -> <<"\\", "\"">>
      [] c = "\\" -> <<"\\", "\\">>
      [] c = BS -> <<"\\", "b">>
      [] c = "\n" -> <<"\\", "n">>
      [] c = "\t" -> <<"\\", "t">>
      [] c = "\r" -> <<"\\", "r">>
      [] c = "\f" -> <<"\\", "f">>
      [] OTHER -> <<c>>

\* the escapes of the code units lo..hi of str, by halves
RECURSIVE escapeRange(_, _, _)
escapeRange(str, lo, hi) ==
    IF lo > hi THEN <<>>
    ELSE IF lo = hi THEN escapeChar(str[lo])
    ELSE escapeRange(str, lo, (lo + hi) \div 2)
         \o escapeRange(str, (lo + hi) \div 2 + 1, hi)

quote(str) == <<"\"">> \o escapeRange(str, 1, Len(str)) \o <<"\"">>

\* the line break and indentation that JSON.stringify(value, null, 2) puts
\* before an item at the given depth
newline(depth) == <<"\n">> \o [k \in 1..(2 * depth) |-> " "]

RECURSIVE stringify(_, _)
RECURSIVE stringifyMembers(_, _, _)
RECURSIVE stringifyElements(_, _, _)

\* the members from position i on; a member holding undefined is left out
stringifyMembers(members, i, depth) ==
    IF i > Len(members) THEN <<>>
    ELSE newline(depth) \o quote(members[i][1]) \o <<":", " ">>
         \o stringify(members[i][2], depth)
         \o (IF i < Len(members) THEN <<",">> ELSE <<>>)
         \o stringifyMembers(members, i + 1, depth)

stringifyElements(elements, i, depth) ==
    IF i > Len(elements) THEN <<>>
    ELSE newline(depth) \o stringify(elements[i], depth)
         \o (IF i < Len(elements) THEN <<",">> ELSE <<>>)
         \o stringifyElements(elements, i + 1, depth)

stringify(value, depth) ==
    CASE value.t = "null" -> Chars("null")
      [] value.t = "boolean" -> IF value.v THEN Chars("true") ELSE Chars("false")
      [] value.t = "number" -> value.v
      [] value.t = "string" -> quote(value.v)
      [] value.t = "array" ->
            IF value.v = <<>> THEN Chars("[]")
            ELSE <<"[">> \o stringifyElements(value.v, 1, depth + 1)
                 \o newline(depth) \o <<"]">>
      [] value.t = "object" ->
            IF value.v = <<>> THEN Chars("{}")
            ELSE <<"{">> \o stringifyMembers(value.v, 1, depth + 1)
                 \o newline(depth) \o <<"}">>

\* JSON.stringify(block, null, 2)
JSONstringify(b) == stringify(Obj(membersFrom(b, 1)), 0)

\* default: the debug display of the block: the tag, the field names of
\* line 90 and the JSON text of line 93
UnknownBlock(b) ==
    [variant |-> "Unrecognized",
     keys |-> objectKeys(b),
     json |-> JSONstringify(b),
     threw |-> FALSE]

\* the switch of ContentBlockRenderer; version 2 has no "thinking" case
dispatch(b, blockType, ver) ==
    CASE blockType = S("text") -> TextBlock(b, ver)
      [] blockType = S("tool_use") -> ToolUseBlock(b, ver)
      [] blockType = S("tool_result") -> ToolResultBlock(b)
      [] blockType = S("thinking") /\ ver = 1 -> ThinkingBlock(b, ver)
      [] OTHER -> UnknownBlock(b)

ContentBlockRenderer(b, ver) ==
    [blockType |-> blockTypeOf(b), out |-> dispatch(b, blockTypeOf(b), ver)]

(***************************************************************************)
(* The blocks drawn for the rendering specification                        *)
(***************************************************************************)
MaxTodos == 2       \* longest newTodos array carried by tool_use_result

Prop(key, value) == <<Chars(key), value>>

Task(id, content, status, priority) ==
    Obj(<<Prop("id", S(id)), Prop("content", S(content)),
          Prop("status", S(status)), Prop("priority", S(priority))>>)

TaskA == Task("1", "a", "pending", "high")
TaskB == Task("2", "b", "completed", "low")
TaskZ == Task("9", "z", "in_progress", "medium")     \* the task embedded in content

TaskPool == {TaskA, TaskB}

RECURSIVE TaskLists(_)
TaskLists(n) ==
    IF n = 0 THEN {<<>>}
    ELSE LET shorter == TaskLists(n - 1)
         IN  shorter \cup {Append(l, task) : l \in {m \in shorter : Len(m) = n - 1}, task \in TaskPool}

TaskZText == Chars("{\"id\":\"9\",\"content\":\"z\",\"status\":\"in_progress\",\"priority\":\"medium\"}")

\* texts that may follow or precede a marker in content
WellFormedJson == Chars("{\"newTodos\":[") \o TaskZText \o Chars("]}")
WellFormedMultiline ==
    Chars("{\n  \"oldTodos\": [],\n  \"newTodos\": [\n    ") \o TaskZText \o Chars("\n  ]\n}")
EmptyListJson == Chars("{\"newTodos\":[]}")
NonSequenceJson == Chars("{\"newTodos\":\"soon\"}")
NullListJson == Chars("{\"newTodos\":null}")
OtherFieldJson == Chars("{\"oldTodos\":[") \o TaskZText \o Chars("]}")
NestedFieldJson == Chars("{\"data\":{\"newTodos\":[") \o TaskZText \o Chars("]}}")
MalformedJson == Chars("{\"newTodos\":[") \o TaskZText \o Chars(",]}")
UnclosedJson == Chars("{\"newTodos\":[") \o TaskZText
TwoObjectsJson == WellFormedJson \o Chars(" {\"ok\":true}")
StrayBraceJson == WellFormedJson \o Chars(" }")
NoJson == Chars("but no json here")

JsonTexts ==
    {<<>>, NoJson, WellFormedJson, WellFormedMultiline, EmptyListJson,
     NonSequenceJson, NullListJson, OtherFieldJson, NestedFieldJson,
     MalformedJson, UnclosedJson, TwoObjectsJson, StrayBraceJson}

\* texts with or without a marker
MarkerTexts ==
    {<<>>, TodosModifiedMarker, TodoListMarker,
     Chars("todos have been modified successfully"),
     Chars("Todo List"),
     Chars("Updated the todo listing"),
     Chars("Todos have been modified")}

ContentValues ==
    {Undefined, Null}
    \cup {Str(m \o <<" ">> \o j) : m \in MarkerTexts, j \in JsonTexts}
    \cup {Str(j \o <<"\n">> \o m) : m \in MarkerTexts, j \in JsonTexts}
    \cup {Str(m) : m \in MarkerTexts}

\* values of the any-typed tool_use_result
ToolUseResultValues ==
    {Undefined, Null, S("done"), Obj(<<>>),
     Obj(<<Prop("oldTodos", Arr(<<TaskA>>))>>),
     Obj(<<Prop("newTodos", Null)>>),
     Obj(<<Prop("newTodos", S(""))>>),
     Obj(<<Prop("newTodos", S("soon"))>>),
     Obj(<<Prop("newTodos", Num(<<"3">>))>>),
     Obj(<<Prop("newTodos", Obj(<<Prop("0", TaskA)>>))>>)}
    \cup {Obj(<<Prop("oldTodos", Arr(<<>>)), Prop("newTodos", Arr(l))>>) : l \in TaskLists(MaxTodos)}

KnownTags == {S("text"), S("tool_use"), S("tool_result"), S("thinking")}

TagValues == {Undefined, S("")} \cup KnownTags \cup {S("image"), S("unknown")}

Optional(value) == {Undefined, value}

\* blocks for classification: every pair of tag fields with every subset of
\* the payload fields
ClassifierBlocks ==
    [block_type : TagValues \cup {Null},
     type : TagValues,
     text : Optional(Str(<<"a", "b", BS, "c">>)),
     name : Optional(S("TodoWrite")),
     input : Optional(Obj(<<Prop("todos", Arr(<<TaskA>>))>>)),
     tool_use_id : Optional(S("toolu_01")),
     content : Optional(Str(TodoListMarker \o <<" ">> \o EmptyListJson)),
     tool_use_result : Optional(Obj(<<Prop("newTodos", Arr(<<TaskA>>))>>)),
     thinking : Optional(S("hm"))]

\* tool-output blocks for task-list extraction
ExtractorBlocks ==
    [block_type : {S("tool_result")},
     type : {Undefined},
     text : {Undefined},
     name : {Undefined},
     input : {Undefined},
     tool_use_id : {S("toolu_01")},
     content : ContentValues,
     tool_use_result : ToolUseResultValues,
     thinking : {Undefined}]

(***************************************************************************)
(* Rendering specification: a block is drawn and ContentBlockRenderer of   *)
(* one of the two versions renders it.                                     *)
(***************************************************************************)
InitRender ==
    /\ text = <<>>
    /\ results = <<>>
    /\ block \in ClassifierBlocks \cup ExtractorBlocks
    /\ version \in {1, 2}
    /\ rendered = NotRendered
    /\ message = Null
    /\ extracted = NotExtracted
    /\ SidebarMounted

Render ==
    /\ block # NoBlock
    /\ rendered = NotRendered
    /\ rendered' = ContentBlockRenderer(block, version)
    /\ UNCHANGED <<text, results, block, version, message, extracted>>
    /\ UNCHANGED sidebarVars

NextRender == Render

SpecRender == InitRender /\ [][NextRender]_vars

\* tool-invocation blocks that carry the result of the call
EmbeddedBlocks ==
    [block_type : {S("tool_use")},
     type : {Undefined},
     text : {Undefined},
     name : {S("TodoWrite")},
     input : {Obj(<<Prop("todos", Arr(<<TaskA>>))>>)},
     tool_use_id : {Undefined},
     content : ContentValues,
     tool_use_result : ToolUseResultValues,
     thinking : {Undefined}]

\* Embedded-result specification: a tool-invocation block carrying a result
\* is drawn and rendered.
InitEmbedded ==
    /\ text = <<>>
    /\ results = <<>>
    /\ block \in EmbeddedBlocks
    /\ version \in {1, 2}
    /\ rendered = NotRendered
    /\ message = Null
    /\ extracted = NotExtracted
    /\ SidebarMounted

SpecEmbedded == InitEmbedded /\ [][NextRender]_vars

(***************************************************************************)
(* extractMessageText (src/types/chat.ts)                                  *)
(***************************************************************************)
MaxBlocks == 2      \* longest block array of a message

\* .filter(block => block.text).map(block => block.text!)
RECURSIVE textsFrom(_, _)
textsFrom(blocks, i) ==
    IF i > Len(blocks) THEN <<>>
    ELSE (IF truthy(blocks[i].text) THEN <<blocks[i].text.v>> ELSE <<>>)
         \o textsFrom(blocks, i + 1)

\* Array.prototype.join(separator) over strings
RECURSIVE join(_, _)
join(strings, separator) ==
    IF Len(strings) = 0 THEN <<>>
    ELSE IF Len(strings) = 1 THEN strings[1]
    ELSE strings[1] \o separator \o join(Tail(strings), separator)

RECURSIVE mapRepair(_)
mapRepair(strings) ==
    IF Len(strings) = 0 THEN <<>>
    ELSE <<processBackspaces(strings[1])>> \o mapRepair(Tail(strings))

\* (mutation of extractMessageText: each block's text is repaired by itself)
extractMessageText_perBlock(content) ==
    IF content.t = "string" THEN processBackspaces(content.v)
    ELSE IF isArray(content)
         THEN join(mapRepair(textsFrom(content.v, 1)), <<"\n">>)
    ELSE <<>>

\* chat.ts:83-98, of message.content
extractMessageText(content) ==
    LET rawText == IF content.t = "string" THEN content.v
                   ELSE IF isArray(content)
                        THEN join(textsFrom(content.v, 1), <<"\n">>)
                   ELSE <<>>
    IN  processBackspaces(rawText)

\* a ContentBlock with a tag and a text field only
TextOnlyBlock(type, textField) ==
    [block_type |-> Undefined, type |-> type, text |-> textField,
     name |-> Undefined, input |-> Undefined, tool_use_id |-> Undefined,
     content |-> Undefined, tool_use_result |-> Undefined,
     thinking |-> Undefined]

BlockTexts ==
    {Undefined, S(""), S("a"), Str(<<BS, "b">>), Str(<<"c", BS, BS>>)}

MessageBlocks ==
    {TextOnlyBlock(type, t) : type \in {S("text"), S("tool_use")}, t \in BlockTexts}

RECURSIVE BlockArrays(_)
BlockArrays(n) ==
    IF n = 0 THEN {<<>>}
    ELSE LET shorter == BlockArrays(n - 1)
         IN  shorter \cup {Append(l, b) : l \in {m \in shorter : Len(m) = n - 1},
                                          b \in MessageBlocks}

\* contents of a message: a string, an array of blocks, or neither
MessageContents ==
    {Null}
    \cup {Str(str) : str \in StringsUpTo(MaxLen)}
    \cup {Arr(blocks) : blocks \in BlockArrays(MaxBlocks)}

InitExtract ==
    /\ text = <<>>
    /\ results = <<>>
    /\ block = NoBlock
    /\ version = 1
    /\ rendered = NotRendered
    /\ message \in MessageContents
    /\ extracted = NotExtracted
    /\ SidebarMounted

Extract ==
    /\ extracted = NotExtracted
    /\ extracted' = [done |-> TRUE, text |-> extractMessageText(message)]
    /\ UNCHANGED <<text, results, block, version, rendered, message>>
    /\ UNCHANGED sidebarVars

NextExtract == Extract

SpecExtract == InitExtract /\ [][NextExtract]_vars

(***************************************************************************)
(* Sidebar actions.  Every handler ends with the render it causes, which   *)
(* recomputes filteredResults from the data of the current query.          *)
(***************************************************************************)
Rerender ==
    filteredResults' =
        filteredResultsOf(searchResultsOf(cache', debouncedQuery'), activeFilters')

\* AppSidebar.tsx:288  isLoading of the current query
isLoading == debouncedQuery \in fetching

\* AppSidebar.tsx:287-318  the result buttons that are on screen
shownResults ==
    IF isSearchMode /\ ~isLoading /\ filteredResults.loaded
    THEN filteredResults.list ELSE <<>>

Tick ==
    /\ now + TickMs <= MaxTime
    /\ now' = now + TickMs
    /\ UNCHANGED renderVars
    /\ UNCHANGED <<searchQuery, debouncedQuery, isSearchMode, activeFilters,
                   showFilters, timers, projects, cache, fetching, searchCalls,
                   filteredResults, selectedSession, lastClick, lastFilterOp>>

\* typing that also shows every match type again
Type_resetsFilters(value) ==
    /\ value # searchQuery
    /\ now + DebounceDelay <= MaxTime
    /\ searchQuery' = value
    /\ timers' = clearTimeout(timers, searchQuery) \cup {Timeout(value, now)}
    /\ isSearchMode' = (Len(value) > 0)
    /\ activeFilters' = SetOf(ALL_MATCH_TYPES)
    /\ UNCHANGED renderVars
    /\ UNCHANGED <<debouncedQuery, showFilters, now, projects,
                   cache, fetching, searchCalls, selectedSession, lastClick,
                   lastFilterOp>>
    /\ Rerender

\* AppSidebar.tsx:203 onChange, then the effects of lines 50-56 and 59-61.
\* Nothing is typed so late that its timeout would fall after MaxTime.
Type(value) ==
    /\ value # searchQuery
    /\ now + DebounceDelay <= MaxTime
    /\ searchQuery' = value
    /\ timers' = clearTimeout(timers, searchQuery) \cup {Timeout(value, now)}
    /\ isSearchMode' = (Len(value) > 0)
    /\ UNCHANGED renderVars
    /\ UNCHANGED <<debouncedQuery, activeFilters, showFilters, now, projects,
                   cache, fetching, searchCalls, selectedSession, lastClick,
                   lastFilterOp>>
    /\ Rerender

\* AppSidebar.tsx:52  the timeout runs setDebouncedQuery(searchQuery); the
\* render that follows hands the query to useSearchChats (line 63)
TimerFire ==
    /\ \E h \in timers :
          /\ now >= h.due
          /\ debouncedQuery' = h.value
          /\ timers' = timers \ {h}
          /\ IF mustFetch(h.value, cache, fetching)
             THEN /\ fetching' = fetching \cup {h.value}
                  /\ searchCalls' = searchCalls \cup {h.value}
             ELSE UNCHANGED <<fetching, searchCalls>>
    /\ UNCHANGED renderVars
    /\ UNCHANGED <<searchQuery, isSearchMode, activeFilters, showFilters, now,
                   projects, cache, selectedSession, lastClick, lastFilterOp>>
    /\ Rerender

\* useChats:24  the promise of tauriApi.searchChats(query) resolves
SearchResponse(query, list) ==
    /\ query \in fetching
    /\ fetching' = fetching \ {query}
    /\ cache' = [cache EXCEPT ![query] = Data(list)]
    /\ UNCHANGED renderVars
    /\ UNCHANGED <<searchQuery, debouncedQuery, isSearchMode, activeFilters,
                   showFilters, timers, now, projects, searchCalls,
                   selectedSession, lastClick, lastFilterOp>>
    /\ Rerender

\* useChats:24  the promise rejects; the query keeps no data
SearchError(query) ==
    /\ query \in fetching
    /\ fetching' = fetching \ {query}
    /\ UNCHANGED renderVars
    /\ UNCHANGED <<searchQuery, debouncedQuery, isSearchMode, activeFilters,
                   showFilters, timers, now, projects, cache, searchCalls,
                   selectedSession, lastClick, lastFilterOp>>
    /\ Rerender

\* AppSidebar.tsx:47  useProjects() delivers a project list
ProjectsLoaded(list) ==
    /\ projects # Data(list)
    /\ projects' = Data(list)
    /\ UNCHANGED renderVars
    /\ UNCHANGED <<searchQuery, debouncedQuery, isSearchMode, activeFilters,
                   showFilters, timers, now, cache, fetching, searchCalls,
                   selectedSession, lastClick, lastFilterOp>>
    /\ Rerender

\* AppSidebar.tsx:320  onClick of the i-th result on screen.  The clock may
\* advance between the two new Date() of lines 169 and 172.
SearchResultClick(i) ==
    /\ i \in 1..Len(shownResults)
    /\ \E t2 \in {now, now + TickMs} :
          /\ t2 <= MaxTime
          /\ LET result == shownResults[i]
                 calls == handleSearchResultClick(result, projects, now, t2)
                 repeated == /\ lastClick # NoClick
                             /\ lastClick.result = result
                             /\ lastClick.projects = projects
             IN  /\ selectedSession' = calls[Len(calls)]
                 /\ lastClick' =
                       [clicked |-> TRUE, result |-> result,
                        projects |-> projects, t1 |-> now, t2 |-> t2,
                        calls |-> calls, repeated |-> repeated,
                        previous |-> IF repeated THEN lastClick.calls ELSE <<>>]
          /\ now' = t2
    /\ UNCHANGED renderVars
    /\ UNCHANGED <<searchQuery, debouncedQuery, isSearchMode, activeFilters,
                   showFilters, timers, projects, cache, fetching, searchCalls,
                   lastFilterOp>>
    /\ Rerender

\* NavProjects.tsx:69  onClick of a session of the project tree, which is on
\* screen outside search mode (AppSidebar.tsx:345-349)
NavClick(p, k) ==
    /\ ~isSearchMode
    /\ p \in 1..Len(projects.list)
    /\ k \in 1..Len(projects.list[p].chat_sessions)
    /\ selectedSession' = projects.list[p].chat_sessions[k]
    /\ UNCHANGED renderVars
    /\ UNCHANGED <<searchQuery, debouncedQuery, isSearchMode, activeFilters,
                   showFilters, timers, now, projects, cache, fetching,
                   searchCalls, lastClick, lastFilterOp>>
    /\ Rerender

\* AppSidebar.tsx:210  the trigger of the filter panel, on screen in search mode
ToggleShowFilters ==
    /\ isSearchMode
    /\ showFilters' = ~showFilters
    /\ UNCHANGED renderVars
    /\ UNCHANGED <<searchQuery, debouncedQuery, isSearchMode, activeFilters,
                   timers, now, projects, cache, fetching, searchCalls,
                   selectedSession, lastClick, lastFilterOp>>
    /\ Rerender

\* AppSidebar.tsx:70-80, called from the checkbox of a match type (line 258)
toggleFilter(filter) ==
    /\ isSearchMode /\ showFilters
    /\ activeFilters' = toggleFilterSet(activeFilters, filter)
    /\ lastFilterOp' = [name |-> "toggleFilter", filter |-> filter,
                        before |-> activeFilters,
                        prev |-> prevAfterToggle(activeFilters, filter)]
    /\ UNCHANGED renderVars
    /\ UNCHANGED <<searchQuery, debouncedQuery, isSearchMode, showFilters,
                   timers, now, projects, cache, fetching, searchCalls,
                   selectedSession, lastClick>>
    /\ Rerender

\* AppSidebar.tsx:82-88, called from the button of line 247
toggleAllFilters ==
    /\ isSearchMode /\ showFilters
    /\ activeFilters' = toggleAllSet(activeFilters)
    /\ lastFilterOp' = [name |-> "toggleAllFilters", before |-> activeFilters]
    /\ UNCHANGED renderVars
    /\ UNCHANGED <<searchQuery, debouncedQuery, isSearchMode, showFilters,
                   timers, now, projects, cache, fetching, searchCalls,
                   selectedSession, lastClick>>
    /\ Rerender

\* AppSidebar.tsx:90-92, called from the button shown while a filter is off
clearFilters ==
    /\ isSearchMode
    /\ Cardinality(activeFilters) < Len(ALL_MATCH_TYPES)
    /\ activeFilters' = SetOf(ALL_MATCH_TYPES)
    /\ lastFilterOp' = [name |-> "clearFilters", before |-> activeFilters]
    /\ UNCHANGED renderVars
    /\ UNCHANGED <<searchQuery, debouncedQuery, isSearchMode, showFilters,
                   timers, now, projects, cache, fetching, searchCalls,
                   selectedSession, lastClick>>
    /\ Rerender

InitSidebar ==
    /\ text = <<>>
    /\ results = <<>>
    /\ block = NoBlock
    /\ version = 1
    /\ rendered = NotRendered
    /\ message = Null
    /\ extracted = NotExtracted
    /\ SidebarMounted

\* Search specification: typing, debouncing, searching and filtering.
NextSearch ==
    \/ Tick
    \/ \E value \in Queries : Type(value)
    \/ TimerFire
    \/ \E query \in Queries, list \in ResultLists : SearchResponse(query, list)
    \/ \E query \in Queries : SearchError(query)
    \/ ToggleShowFilters
    \/ \E i \in 1..Len(ALL_MATCH_TYPES) : toggleFilter(ALL_MATCH_TYPES[i])
    \/ toggleAllFilters
    \/ clearFilters

SpecSearch == InitSidebar /\ [][NextSearch]_vars

\* Resolution specification: typing, debouncing, searching, loading projects
\* and selecting sessions, with every match type shown.
NextResolve ==
    \/ Tick
    \/ \E value \in Queries : Type(value)
    \/ TimerFire
    \/ \E query \in Queries, list \in ResultLists : SearchResponse(query, list)
    \/ \E query \in Queries : SearchError(query)
    \/ \E list \in ProjectLists : ProjectsLoaded(list)
    \/ \E i \in 1..Len(ResultsEveryType) : SearchResultClick(i)
    \/ \E p \in 1..Len(ProjectsFull), k \in 1..4 : NavClick(p, k)

SpecResolve == InitSidebar /\ [][NextResolve]_vars

\* Debounce specification: typing, debouncing and searching.  Time passes,
\* and the event loop runs the callback of a timeout that is due.
NextDebounce ==
    \/ Tick
    \/ \E value \in Queries : Type(value)
    \/ TimerFire
    \/ \E query \in Queries, list \in ResultLists : SearchResponse(query, list)
    \/ \E query \in Queries : SearchError(query)

SpecDebounce ==
    /\ InitSidebar
    /\ [][NextDebounce]_vars
    /\ WF_vars(Tick)
    /\ WF_vars(TimerFire)

\* Sidebar specification: every handler of the sidebar, over one result list
\* and one project list.
NextSidebar ==
    \/ Tick
    \/ \E value \in Queries : Type(value)
    \/ TimerFire
    \/ \E query \in Queries : SearchResponse(query, ResultsMixed)
    \/ \E query \in Queries : SearchError(query)
    \/ ProjectsLoaded(ProjectsFull)
    \/ \E i \in 1..2 : SearchResultClick(i)
    \/ \E p \in 1..Len(ProjectsFull) : NavClick(p, 1)
    \/ ToggleShowFilters
    \/ \E filter \in {"content", "thinking"} : toggleFilter(filter)
    \/ toggleAllFilters
    \/ clearFilters

SpecSidebar == InitSidebar /\ [][NextSidebar]_vars

\* Core specification: classification and extraction of one block (a text
\* block or a tool output whose task list is in its content) next to
\* searching, filtering, toggling a filter and resolving a result.
CoreBlocks ==
    {b \in ClassifierBlocks :
        /\ b.type = S("text") /\ b.text # Undefined
        /\ objectKeys(b) = {"type", "text"}}
    \cup {b \in ExtractorBlocks :
             /\ b.content = Str(TodoListMarker \o <<" ">> \o WellFormedJson)
             /\ b.tool_use_result = Undefined}

InitCore ==
    /\ text = <<>>
    /\ results = <<>>
    /\ block \in CoreBlocks
    /\ version = 1
    /\ rendered = NotRendered
    /\ message = Null
    /\ extracted = NotExtracted
    /\ SidebarMounted

NextCore ==
    \/ Render
    \/ Tick
    \/ \E value \in Queries : Type(value)
    \/ TimerFire
    \/ \E query \in Queries : SearchResponse(query, ResultsMixed)
    \/ ProjectsLoaded(ProjectsFull)
    \/ \E i \in 1..2 : SearchResultClick(i)
    \/ ToggleShowFilters
    \/ toggleFilter("thinking")

SpecCore == InitCore /\ [][NextCore]_vars

(***************************************************************************)
(* Text repair: claims C1 - C3                                             *)
(***************************************************************************)
\* The single left-to-right pass of the specification, defined by the last
\* input character: the buffer after s \o <<c>> is the buffer after s with its
\* last character removed (c a backspace, buffer non-empty), unchanged (c a
\* backspace, buffer empty) or extended by c.
RECURSIVE SinglePass(_)
SinglePass(s) ==
    IF Len(s) = 0 THEN <<>>
    ELSE LET buffer == SinglePass(SubSeq(s, 1, Len(s) - 1))
             c == s[Len(s)]
         IN  IF c = BS
             THEN IF Len(buffer) > 0 THEN SubSeq(buffer, 1, Len(buffer) - 1) ELSE buffer
             ELSE Append(buffer, c)

\* C1: processBackspaces(s) is the result of the single left-to-right pass
\* (backspace removes the buffer's last character, or nothing from an empty
\* buffer; any other character is appended); repair("ab\bc") = "ac",
\* repair("\babc") = "abc".
C1_SinglePass ==
    Len(results) >= 1 =>
        /\ results[1] = SinglePass(text)
        /\ (text = <<"a", "b", BS, "c">> => results[1] = <<"a", "c">>)
        /\ (text = <<BS, "a", "b", "c">> => results[1] = <<"a", "b", "c">>)

\* more backspaces than preceding characters: the surplus ones are no-ops
C1_Witness ==
    /\ text = <<"a", BS, BS, "b">>
    /\ Len(results) >= 1
    /\ results[1] = <<"b">>

\* C2: processBackspaces(processBackspaces(s)) = processBackspaces(s), and no
\* output of processBackspaces contains a backspace.
C2_Idempotent ==
    /\ \A k \in 1..Len(results) : ~includesChar(results[k], BS)
    /\ \A k \in 2..Len(results) : results[k] = results[k - 1]

C2_Witness ==
    /\ includesChar(text, BS)
    /\ Len(results) = 2
    /\ results[1] # text
    /\ results[2] = results[1]

\* C3: for s without a backspace processBackspaces(s) = s, and the loop the
\* fast path skips would have returned the same value.
C3_FastPath ==
    (~includesChar(text, BS) /\ Len(results) >= 1) =>
        /\ results[1] = text
        /\ processLoop(text) = results[1]

C3_Witness ==
    /\ ~includesChar(text, BS)
    /\ Len(text) = MaxLen
    /\ Len(results) >= 1
    /\ results[1] = text

(***************************************************************************)
(* Classification: claims C4 - C6                                          *)
(***************************************************************************)
IsRendered == rendered # NotRendered

\* a field that is present and a non-empty string
PresentNonEmpty(x) == x.t = "string" /\ Len(x.v) > 0

\* the effective tag as the specification resolves it
EffectiveTag(b) ==
    IF PresentNonEmpty(b.block_type) THEN b.block_type
    ELSE IF PresentNonEmpty(b.type) THEN b.type
    ELSE S("unknown")

Variants == {"Text", "ToolInvocation", "ToolOutput", "ReasoningTrace", "Unrecognized"}

\* C4: a block whose effective tag is text, tool_use, tool_result or thinking
\* never takes the Unrecognized branch, and a block with any other effective
\* tag (including "unknown" for two absent tag fields) always takes it.
C4_KnownTagsClassified ==
    IsRendered =>
        (EffectiveTag(block) \in KnownTags <=> rendered.out.variant # "Unrecognized")

\* C5: the effective tag is block_type when present and non-empty, otherwise
\* type when present and non-empty, otherwise "unknown".
C5_EffectiveTag ==
    IsRendered => rendered.blockType = EffectiveTag(block)

\* block_type wins although it is no known tag and type holds one
C5_Witness ==
    /\ IsRendered
    /\ block.block_type = S("image")
    /\ block.type = S("text")
    /\ rendered.blockType = S("image")
    /\ rendered.out.variant = "Unrecognized"

\* C6: classification is total: every block, whatever subset of its fields is
\* present, yields one of the five variants and raises no error.
C6_Total ==
    IsRendered =>
        /\ rendered.out.variant \in Variants
        /\ ~rendered.out.threw

\* a tool_result block none of whose payload fields is present
C6_Witness ==
    /\ IsRendered
    /\ objectKeys(block) = {"type"}
    /\ block.type = S("tool_result")
    /\ rendered.out.variant = "ToolOutput"
    /\ rendered.out.todoData = Null
    /\ ~rendered.out.threw

(***************************************************************************)
(* Task-list extraction: claims C7 - C10                                   *)
(***************************************************************************)
IsToolOutput == IsRendered /\ rendered.out.variant = "ToolOutput"

\* needle occurs in s, code unit for code unit
HasSubstring(s, needle) ==
    \E i \in 0..(Len(s) - Len(needle)) : \A k \in 1..Len(needle) : s[i + k] = needle[k]

\* content is present and holds one of the two markers
HasMarker(b) ==
    /\ b.content.t = "string"
    /\ \/ HasSubstring(b.content.v, Chars("Todos have been modified successfully"))
       \/ HasSubstring(b.content.v, Chars("todo list"))

\* tool_use_result carries a newTodos that is a sequence
HasStructuredList(b) ==
    /\ b.tool_use_result.t = "object"
    /\ isArray(memberOf(b.tool_use_result.v, Chars("newTodos")))

StructuredList(b) == memberOf(b.tool_use_result.v, Chars("newTodos"))

\* the brace-delimited candidate of content parses as a JSON object whose
\* newTodos is a sequence
HasScrapedList(b) ==
    /\ b.content.t = "string"
    /\ jsonMatch(b.content.v) # Null
    /\ JSONparse(jsonMatch(b.content.v).v) # Thrown
    /\ isArray(Member(JSONparse(jsonMatch(b.content.v).v), "newTodos"))

ScrapedList(b) == Member(JSONparse(jsonMatch(b.content.v).v), "newTodos")

\* C7: a tool output is a task-list mutation iff content is present and holds
\* "Todos have been modified successfully" or "todo list" (case-sensitive);
\* without a marker the task list is absent whatever tool_use_result holds.
C7_MarkersGate ==
    IsToolOutput =>
        /\ rendered.out.isTodoResult <=> HasMarker(block)
        /\ ~HasMarker(block) => rendered.out.todoData = Null

\* a valid newTodos with a marker in the wrong case only: no task list
C7_Witness ==
    /\ IsToolOutput
    /\ HasStructuredList(block)
    /\ Len(StructuredList(block).v) = 2
    /\ block.content.t = "string"
    /\ HasSubstring(block.content.v, Chars("Todo List"))
    /\ ~rendered.out.isTodoResult
    /\ rendered.out.todoData = Null

\* C8: with a marker and a newTodos sequence in tool_use_result the task list
\* is that sequence, whatever JSON content embeds.
C8_StructuredFirst ==
    (IsToolOutput /\ HasMarker(block) /\ HasStructuredList(block)) =>
        rendered.out.todoData = StructuredList(block)

\* content embeds a well-formed object with another list; the payload wins
C8_Witness ==
    /\ IsToolOutput
    /\ HasMarker(block)
    /\ HasScrapedList(block)
    /\ HasStructuredList(block)
    /\ ScrapedList(block) # StructuredList(block)
    /\ rendered.out.todoData = Arr(<<TaskA, TaskB>>)

\* C9: with a marker, no usable newTodos in tool_use_result and a well-formed
\* JSON object with a newTodos sequence embedded in content, the task list is
\* the parsed sequence.
C9_ScrapedFallback ==
    (IsToolOutput /\ HasMarker(block) /\ ~HasStructuredList(block) /\ HasScrapedList(block)) =>
        rendered.out.todoData = ScrapedList(block)

\* C10: with a marker and both strategies failing the task list is absent
\* and no error is raised.
C10_AbsentWhenBothFail ==
    (IsToolOutput /\ HasMarker(block) /\ ~HasStructuredList(block) /\ ~HasScrapedList(block)) =>
        /\ rendered.out.todoData = Null
        /\ ~rendered.out.threw

(***************************************************************************)
(* Resolving a search result: claims C11 - C13                             *)
(***************************************************************************)
\* every session of a project list, projects in order, sessions in order
RECURSIVE ScanOrder(_)
ScanOrder(list) ==
    IF list = <<>> THEN <<>>
    ELSE list[1].chat_sessions \o ScanOrder(Tail(list))

MatchesOf(click) ==
    {k \in 1..Len(ScanOrder(click.projects.list)) :
        ScanOrder(click.projects.list)[k].id = click.result.session_id}

FirstMatchOf(click) ==
    ScanOrder(click.projects.list)
        [CHOOSE k \in MatchesOf(click) : \A j \in MatchesOf(click) : k <= j]

\* C11: when a session of the project data has the id of the clicked
\* result, the click selects the first such session in scan order (projects
\* in order, sessions in order within each), and it is that very object, not
\* a copy and not a placeholder.
C11_FirstMatch ==
    (lastClick.clicked /\ MatchesOf(lastClick) # {})
        => lastClick.calls[1] = FirstMatchOf(lastClick)

\* a click on a result whose session is the second of the second project,
\* the id occurring again later in that project
C11_Witness ==
    /\ lastClick.clicked
    /\ lastClick.projects = Data(ProjectsFull)
    /\ lastClick.result.session_id = "s2"
    /\ Cardinality(MatchesOf(lastClick)) = 2
    /\ lastClick.calls[1].ref = "o3"

\* C12: when no session has the id of the clicked result, a placeholder is
\* selected: its id is the result's session id, its title is
\* "Search Result: ", the first 50 characters of the snippet (all of a shorter
\* one) and "...", its project_path is empty, its message_count is 0, and its
\* timestamp and last_updated both are the time of the call, hence equal.
C12_Placeholder ==
    (lastClick.clicked /\ MatchesOf(lastClick) = {})
        => LET session == lastClick.calls[1]
               snippet == lastClick.result.snippet
           IN  /\ session.id = lastClick.result.session_id
               /\ session.title =
                     Chars("Search Result: ")
                     \o [k \in 1..(IF Len(snippet) <= 50 THEN Len(snippet) ELSE 50)
                            |-> snippet[k]]
                     \o Chars("...")
               /\ session.project_path = ""
               /\ session.message_count = 0
               /\ session.timestamp = toISOString(lastClick.t1)
               /\ session.last_updated = toISOString(lastClick.t1)
               /\ session.timestamp = session.last_updated

\* C13: every click on a search result calls the selection callback exactly
\* once, with a session whose id is the result's session id, whatever the
\* project data is: not loaded, empty, without the session or with it.
C13_Total ==
    lastClick.clicked
        => /\ Len(lastClick.calls) = 1
           /\ lastClick.calls[1].id = lastClick.result.session_id

\* a click while the project data is not loaded
C13_Witness ==
    /\ lastClick.clicked
    /\ ~lastClick.projects.loaded
    /\ Len(lastClick.calls) = 1
    /\ selectedSession = lastClick.calls[1]

(***************************************************************************)
(* Filtering search results: claims C14 - C16                              *)
(***************************************************************************)
AllMatchTypes ==
    {"content", "thinking", "tool_name", "tool_input", "tool_result",
     "tool_structured_result"}

\* the data of the current query and the positions in it whose match type
\* is active
CurrentData == cache[debouncedQuery]

KeptPositions == {i \in 1..Len(CurrentData.list) :
                     CurrentData.list[i].match_type \in activeFilters}

RankOf(i) == Cardinality({k \in KeptPositions : k <= i})

\* C14: the filtered result list is exactly the subsequence of the search
\* results whose match type is in the active set: the elements keep their
\* relative order, none is added, none with an active type is dropped, none
\* is duplicated and none is reordered.
C14_Subsequence ==
    CurrentData.loaded
        => /\ filteredResults.loaded
           /\ Len(filteredResults.list) = Cardinality(KeptPositions)
           /\ \A i \in KeptPositions :
                 filteredResults.list[RankOf(i)] = CurrentData.list[i]

\* a list with a repeated element, filtered by a set that drops its second
\* and fifth elements
C14_Witness ==
    /\ CurrentData = Data(ResultsMixed)
    /\ activeFilters = {"thinking", "tool_result"}
    /\ lastFilterOp.name = "toggleFilter"
    /\ Len(filteredResults.list) = 3

\* C15: with the full enumeration active the filter returns the result list
\* unchanged, and with the empty set active it returns the empty list, for
\* every result list of the search backend.
C15_FullAndEmpty ==
    CurrentData.loaded
        => /\ activeFilters = AllMatchTypes => filteredResults = CurrentData
           /\ activeFilters = {} => filteredResults = Data(<<>>)

\* every type switched off by toggleAllFilters over a list of six results
C15_Witness ==
    /\ CurrentData = Data(ResultsEveryType)
    /\ activeFilters = {}
    /\ lastFilterOp.name = "toggleAllFilters"
    /\ filteredResults = Data(<<>>)

SymmetricDifference(A, B) == (A \ B) \cup (B \ A)

\* C16: the active set is the full enumeration until a filter handler runs;
\* toggleFilter(c) replaces it by its symmetric difference with {c}, so
\* toggling the same category twice restores the set, and toggles of
\* different categories commute.
C16_Toggle ==
    /\ lastFilterOp = NoFilterOp => activeFilters = AllMatchTypes
    /\ lastFilterOp.name = "toggleFilter"
          => activeFilters =
                SymmetricDifference(lastFilterOp.before, {lastFilterOp.filter})
    /\ \A c \in AllMatchTypes :
          toggleFilterSet(toggleFilterSet(activeFilters, c), c) = activeFilters
    /\ \A c, d \in AllMatchTypes :
          toggleFilterSet(toggleFilterSet(activeFilters, c), d)
              = toggleFilterSet(toggleFilterSet(activeFilters, d), c)

\* a category that was off is toggled on again
C16_Witness ==
    /\ lastFilterOp.name = "toggleFilter"
    /\ lastFilterOp.filter = "thinking"
    /\ lastFilterOp.before = AllMatchTypes \ {"thinking", "tool_input"}
    /\ activeFilters = AllMatchTypes \ {"tool_input"}

IsPlaceholderClick == lastClick.clicked /\ lastClick.calls[1].ref = "new"

C18_NoShortQuery ==
    /\ \A query \in searchCalls : Len(query) >= 2
    /\ \A query \in fetching : Len(query) >= 2

\* a one-character query has gone through the debounce after a search for a
\* two-character query, and no search was made for it
C18_Witness ==
    /\ Len(debouncedQuery) = 1
    /\ timers = {}
    /\ searchCalls = {<<"a", "a">>}

(***************************************************************************)
(* The debug display and the extraction result: claims C19, C20            *)
(***************************************************************************)
IsUnrecognized == IsRendered /\ rendered.out.variant = "Unrecognized"

\* the field names the raw block has
RawFields == {f \in DOMAIN block : block[f] # Undefined}

\* C19: the Unrecognized display carries every field of the raw block: the
\* field names it lists are the raw block's own field names, and the JSON
\* text it shows reads back as an object with exactly those fields, each
\* holding the raw value; no field is dropped or altered.
C19_CarriesEveryField ==
    IsUnrecognized =>
        /\ rendered.out.keys = RawFields
        /\ LET shown == JSONparse(rendered.out.json)
           IN  /\ shown # Thrown
               /\ shown.t = "object"
               /\ {shown.v[i][1] : i \in 1..Len(shown.v)}
                     = {Chars(f) : f \in RawFields}
               /\ Len(shown.v) = Cardinality(RawFields)
               /\ \A f \in RawFields : memberOf(shown.v, Chars(f)) = block[f]

\* an untagged block with a null block_type, a text holding a backspace and
\* a structured payload
C19_Witness ==
    /\ IsUnrecognized
    /\ block.block_type = Null
    /\ block.type = Undefined
    /\ block.text # Undefined
    /\ block.tool_use_result # Undefined
    /\ Cardinality(rendered.out.keys) >= 5

\* C20: the extraction result is absent or a sequence: newTodos of
\* tool_use_result is used only if it is a sequence, and when it is present
\* but not a sequence the structured path has failed and the result is what
\* the scraped path gives.
C20_AbsentOrSequence ==
    IsToolOutput =>
        /\ rendered.out.todoData = Null \/ isArray(rendered.out.todoData)
        /\ (HasMarker(block) /\ ~HasStructuredList(block))
              => rendered.out.todoData =
                    IF HasScrapedList(block) THEN ScrapedList(block) ELSE Null

(***************************************************************************)
(* The scraped candidate: claim C21                                        *)
(***************************************************************************)
\* the structured path has produced nothing and content is there to scrape
OnScrapedPath(b) ==
    /\ HasMarker(b)
    /\ ~(/\ b.tool_use_result.t = "object"
          /\ truthy(memberOf(b.tool_use_result.v, Chars("newTodos"))))

OpenBraces(s) == {i \in 1..Len(s) : s[i] = "{"}
CloseBraces(s) == {i \in 1..Len(s) : s[i] = "}"}
FirstOpen(s) == CHOOSE i \in OpenBraces(s) : \A j \in OpenBraces(s) : i <= j
LastClose(s) == CHOOSE i \in CloseBraces(s) : \A j \in CloseBraces(s) : j <= i

HasCandidate(s) ==
    OpenBraces(s) # {} /\ CloseBraces(s) # {} /\ FirstOpen(s) < LastClose(s)

\* the text from the first '{' to the last '}', both included
Candidate(s) == [k \in 1..(LastClose(s) - FirstOpen(s) + 1) |-> s[FirstOpen(s) + k - 1]]

\* the task list the one candidate gives: its newTodos when the candidate
\* is well-formed JSON holding a newTodos sequence, else nothing
CandidateList(s) ==
    IF ~HasCandidate(s) THEN Null
    ELSE LET parsed == JSONparse(Candidate(s))
         IN  IF parsed # Thrown /\ parsed.t = "object"
                /\ isArray(memberOf(parsed.v, Chars("newTodos")))
             THEN memberOf(parsed.v, Chars("newTodos"))
             ELSE Null

\* content holds a well-formed object followed by more text with a '}'
HasTrailingBrace(s) ==
    \/ HasSubstring(s, Chars("]} {\"ok\":true}"))
    \/ HasSubstring(s, Chars("]} }"))

\* C21: on the scraped path the one candidate parsed is the text of content
\* from its first '{' to its last '}', line breaks included; the task list
\* is what that candidate gives, and it is absent when content holds two
\* separate objects or a stray '}' after the object: no shorter candidate is
\* tried.
C21_GreedyCandidate ==
    (IsToolOutput /\ OnScrapedPath(block)) =>
        /\ rendered.out.todoData = CandidateList(block.content.v)
        /\ HasTrailingBrace(block.content.v) => rendered.out.todoData = Null
        /\ ~rendered.out.threw

\* two objects in content, the first of them a well-formed task list
C21_Witness ==
    /\ IsToolOutput
    /\ OnScrapedPath(block)
    /\ block.content = Str(TodoListMarker \o <<" ">> \o TwoObjectsJson)
    /\ JSONparse(WellFormedJson) # Thrown
    /\ rendered.out.todoData = Null

(***************************************************************************)
(* The fields each variant takes: claim C22                                *)
(***************************************************************************)
\* the field when it is present, the empty string when it is absent
FieldOrEmpty(x) == IF x = Undefined THEN S("") ELSE x

\* a ReasoningTrace body: the text shown, the empty string when none is
BodyShown(content) == IF content = Null THEN S("") ELSE content

\* C22: a block tagged text becomes Text whose body is the text field, the
\* empty string if absent; tool_use becomes ToolInvocation whose name is the
\* name field and whose input is the input field as it is; tool_result
\* becomes ToolOutput whose rawText is the content field and whose
\* structuredPayload is the tool_use_result field; thinking becomes
\* ReasoningTrace whose body is the thinking field, empty if absent.  These
\* hold whichever other fields the block has.
C22_FieldMapping ==
    IsRendered =>
        /\ EffectiveTag(block) = S("text") =>
              /\ rendered.out.variant = "Text"
              /\ rendered.out.content = FieldOrEmpty(block.text)
        /\ EffectiveTag(block) = S("tool_use") =>
              /\ rendered.out.variant = "ToolInvocation"
              /\ rendered.out.name = block.name
              /\ rendered.out.input = block.input
        /\ EffectiveTag(block) = S("tool_result") =>
              /\ rendered.out.variant = "ToolOutput"
              /\ rendered.out.rawText = block.content
              /\ rendered.out.structuredPayload = block.tool_use_result
        /\ EffectiveTag(block) = S("thinking") =>
              /\ rendered.out.variant = "ReasoningTrace"
              /\ BodyShown(rendered.out.content) = FieldOrEmpty(block.thinking)

(***************************************************************************)
(* Select all, select none: claim C23                                      *)
(***************************************************************************)
\* C23: toggleAllFilters makes the active set empty when every category was
\* active and the full enumeration from every other set, the empty set
\* included; clearFilters makes it the full enumeration from any set.  The
\* outcome depends on nothing else about the categories that were active.
C23_TotalAssignments ==
    /\ lastFilterOp.name = "toggleAllFilters" =>
          activeFilters =
              IF lastFilterOp.before = AllMatchTypes THEN {} ELSE AllMatchTypes
    /\ lastFilterOp.name = "clearFilters" => activeFilters = AllMatchTypes

\* toggleAllFilters run on the empty set
C23_Witness ==
    /\ lastFilterOp.name = "toggleAllFilters"
    /\ lastFilterOp.before = {}
    /\ activeFilters = AllMatchTypes

C25_WithinEnumeration ==
    /\ activeFilters \subseteq AllMatchTypes
    /\ lastFilterOp.name = "toggleFilter" => lastFilterOp.filter \in AllMatchTypes
    /\ Cardinality(AllMatchTypes) = 6
    /\ Cardinality(activeFilters) = 6 <=> activeFilters = AllMatchTypes
    /\ Cardinality(activeFilters) < 6 <=> activeFilters # AllMatchTypes

\* the set is full again after toggles that had taken two categories out
C25_Witness ==
    /\ lastFilterOp.name = "toggleFilter"
    /\ Cardinality(lastFilterOp.before) = 5
    /\ lastFilterOp.filter = "tool_structured_result"
    /\ activeFilters = AllMatchTypes
    /\ Cardinality(activeFilters) = 6

(***************************************************************************)
(* Debouncing: claim C26                                                   *)
(***************************************************************************)
\* C26: at most one timeout is pending, it is the one set when searchQuery
\* last changed, for the value searchQuery has, and every change of
\* searchQuery replaces it; debouncedQuery changes only to the value that
\* searchQuery has held unchanged for 300 ms, so a value replaced sooner is
\* never debounced and never searched; and once typing has stopped,
\* debouncedQuery becomes equal to searchQuery and stays so.
C26_Debounce ==
    /\ [](/\ Cardinality(timers) <= 1
          /\ \A h \in timers : h.value = searchQuery /\ h.due = h.set + 300)
    /\ [][/\ searchQuery' # searchQuery =>
                timers' = {[value |-> searchQuery', due |-> now + 300, set |-> now]}
          /\ searchQuery' = searchQuery => timers' \subseteq timers
          /\ debouncedQuery' # debouncedQuery =>
                /\ searchQuery' = searchQuery
                /\ debouncedQuery' = searchQuery
                /\ \E h \in timers : h.value = searchQuery /\ now - h.set >= 300
          /\ searchCalls' # searchCalls =>
                /\ searchCalls' = searchCalls \cup {searchQuery}
                /\ debouncedQuery' = searchQuery]_vars
    /\ \/ []<><<searchQuery' # searchQuery>>_vars
       \/ <>[](debouncedQuery = searchQuery)

\* "aa" went through the debounce and was searched; "a", typed then, waits
\* for its own 300 ms
C26_Witness ==
    /\ debouncedQuery = <<"a", "a">>
    /\ searchCalls = {<<"a", "a">>}
    /\ searchQuery = <<"a">>
    /\ timers = {[value |-> <<"a">>, due |-> 600, set |-> 300]}
    /\ now = 450

(***************************************************************************)
(* The selected session: claim C27                                         *)
(***************************************************************************)
\* the sessions of the project tree on screen
SessionsOnScreen ==
    IF isSearchMode \/ ~projects.loaded THEN {}
    ELSE SetOf(ScanOrder(projects.list))

\* C27: the selected session is null at first and changes only by the
\* selection callback, called for a click on a search result or on a session
\* of the project tree; the callback never receives null, so once a session
\* is selected the selection is never null again, whatever is typed,
\* filtered, searched and clicked.
C27_SelectionOnlyByClick ==
    /\ selectedSession = NoSession
    /\ [][selectedSession' # selectedSession =>
             /\ selectedSession' # NoSession
             /\ \/ /\ lastClick'.clicked
                   /\ lastClick'.calls = <<selectedSession'>>
                   /\ lastClick'.result \in SetOf(shownResults)
                \/ /\ lastClick' = lastClick
                   /\ selectedSession' \in SessionsOnScreen]_vars
    /\ [](lastClick.clicked => selectedSession # NoSession)

\* a placeholder was selected by a click on a search result while a filter
\* is off, and is still selected at the end of the modelled time
C27_Witness ==
    /\ selectedSession.ref = "new"
    /\ lastClick.clicked
    /\ lastClick.repeated = FALSE
    /\ activeFilters = AllMatchTypes \ {"thinking"}
    /\ searchQuery = <<"a", "a">>
    /\ now = 600

(***************************************************************************)
(* What changes the active filter set: claim C28                           *)
(***************************************************************************)
FilterHandlers == {"toggleFilter", "toggleAllFilters", "clearFilters"}

\* C28: the active filter set changes only in a step of toggleFilter,
\* toggleAllFilters or clearFilters; a step that changes the search text,
\* the debounced query, the result lists, the search mode, or that clicks a
\* search result or selects a session leaves it as it was; and a step of one
\* of the three filter handlers leaves searchQuery, debouncedQuery and the
\* selected session as they were.
C28_FilterFrame ==
    [][/\ activeFilters' # activeFilters =>
             /\ lastFilterOp'.name \in FilterHandlers
             /\ lastFilterOp'.before = activeFilters
             /\ lastFilterOp' # lastFilterOp
       /\ (\/ searchQuery' # searchQuery
           \/ debouncedQuery' # debouncedQuery
           \/ timers' # timers
           \/ cache' # cache
           \/ fetching' # fetching
           \/ isSearchMode' # isSearchMode
           \/ lastClick' # lastClick
           \/ selectedSession' # selectedSession) => activeFilters' = activeFilters
       /\ lastFilterOp' # lastFilterOp =>
             /\ searchQuery' = searchQuery
             /\ debouncedQuery' = debouncedQuery
             /\ selectedSession' = selectedSession]_vars

\* a filter switched off during a search is still off after a result was
\* clicked, the search text was emptied and search mode was left
C28_Witness ==
    /\ activeFilters = AllMatchTypes \ {"thinking"}
    /\ lastFilterOp.name = "toggleFilter"
    /\ lastClick.clicked
    /\ searchQuery = <<>>
    /\ ~isSearchMode
    /\ debouncedQuery = <<"a", "a">>
    /\ selectedSession # NoSession

(***************************************************************************)
(* The text of a message: claim C29                                        *)
(***************************************************************************)
IsExtracted == extracted # NotExtracted

\* the texts of the blocks that have a non-empty text, in order
RECURSIVE NonEmptyTexts(_)
NonEmptyTexts(blocks) ==
    IF blocks = <<>> THEN <<>>
    ELSE LET front == NonEmptyTexts(SubSeq(blocks, 1, Len(blocks) - 1))
             last == blocks[Len(blocks)].text
         IN  IF last.t = "string" /\ Len(last.v) > 0 THEN Append(front, last.v)
             ELSE front

\* texts joined by line feeds
RECURSIVE JoinedByLineFeed(_)
JoinedByLineFeed(texts) ==
    IF texts = <<>> THEN <<>>
    ELSE IF Len(texts) = 1 THEN texts[1]
    ELSE JoinedByLineFeed(SubSeq(texts, 1, Len(texts) - 1))
         \o <<"\n">> \o texts[Len(texts)]

\* C29: for a string content the result is the repaired content; for an
\* array of blocks it is the repair of the texts of the blocks with a
\* non-empty text, whatever their tag, joined in order by line feeds; the
\* repair runs once over the joined text, so the result holds no backspace,
\* and a backspace at the start of a block's text removes the line feed that
\* joins it to the text before.
C29_ExtractedText ==
    IsExtracted =>
        /\ message.t = "string" => extracted.text = SinglePass(message.v)
        /\ message.t = "array" =>
              LET texts == NonEmptyTexts(message.v)
              IN  /\ extracted.text = SinglePass(JoinedByLineFeed(texts))
                  /\ (Len(texts) = 2 /\ texts[2][1] = BS) =>
                        extracted.text = SinglePass(texts[1] \o Tail(texts[2]))
        /\ \A i \in 1..Len(extracted.text) : extracted.text[i] # BS

\* the second block's text starts with a backspace: no line feed is left
\* between the two texts
C29_Witness ==
    /\ IsExtracted
    /\ message = Arr(<<TextOnlyBlock(S("text"), S("a")),
                       TextOnlyBlock(S("tool_use"), Str(<<BS, "b">>))>>)
    /\ extracted.text = <<"a", "b">>

(***************************************************************************)
(* The result carried by a tool invocation: claim C30                      *)
(***************************************************************************)
IsToolInvocation == IsRendered /\ rendered.out.variant = "ToolInvocation"

\* tool_use_result is truthy and its newTodos is truthy
HasTruthyNewTodos(b) ==
    /\ b.tool_use_result.t = "object"
    /\ truthy(memberOf(b.tool_use_result.v, Chars("newTodos")))

HasModifiedMarker(b) ==
    /\ b.content.t = "string"
    /\ HasSubstring(b.content.v, Chars("Todos have been modified successfully"))

\* C30: a tool-invocation block shows a task list for the result it carries
\* if and only if tool_use_result is truthy, content holds "Todos have been
\* modified successfully" and newTodos of tool_use_result is truthy, and the
\* list is that newTodos; "todo list" in content does not count and content
\* is not scraped, so a block for which ToolResultBlock gives a task list
\* may show none here.
C30_EmbeddedTaskList ==
    IsToolInvocation =>
        /\ rendered.out.todos # Null <=>
              (truthy(block.tool_use_result) /\ HasModifiedMarker(block)
               /\ HasTruthyNewTodos(block))
        /\ rendered.out.todos # Null =>
              rendered.out.todos = memberOf(block.tool_use_result.v, Chars("newTodos"))
        /\ (HasMarker(block) /\ ~HasModifiedMarker(block)) => rendered.out.todos = Null
        /\ ~HasTruthyNewTodos(block) => rendered.out.todos = Null

====
